---- MODULE Spec2Model ----
(***************************************************************************)
(* A model of the in-memory search index of src/search_server.{h,cpp} and  *)
(* of the tokenizer of src/string_processing.cpp.                          *)
(*                                                                         *)
(* A text is a sequence of characters; a character is a one-element token  *)
(* of the alphabet Chars below.  A word is a text without whitespace.      *)
(* std::map is a function with a finite domain, std::set is a set,         *)
(* std::vector is a sequence.                                              *)
(*                                                                         *)
(* A term frequency is the double reached by `num` additions of            *)
(* 1.0 / den to 0.0 (search_server.cpp:127-133); it is kept as the record  *)
(* [num, den].  A relevance is kept in fixed point, in units of 1e-9.      *)
(***************************************************************************)
EXTENDS Integers, Sequences, FiniteSets, TLC

VARIABLES stop_words_,
          word_to_document_id_to_term_frequency_,
          document_id_to_document_data_,
          document_ids_,
          last,       \* what the call in progress handed to its caller
          before,     \* history: the state in which that call began
          removed,    \* history: the ids removed and not inserted since
          running     \* the parallel algorithm in progress and its tasks

vars == << stop_words_, word_to_document_id_to_term_frequency_,
           document_id_to_document_data_, document_ids_, last, before, removed,
           running >>

\* The state of a SearchServer object (search_server.h:117-124).
index == << stop_words_, word_to_document_id_to_term_frequency_,
            document_id_to_document_data_, document_ids_ >>

----------------------------------------------------------------------------
\* Characters.  "SP" is the space 0x20, "TAB" is 0x09 (a control character
\* that std::isspace accepts), "SOH" is 0x01 (a control character that is
\* not whitespace), "-" is the minus sign, the others are letters.

SP == " "

Letters == {"a", "b", "t", "x"}

Chars == Letters \cup {"-", SP, "TAB", "SOH"}

\* c >= '\0' && c < ' '
IsControl(c) == c \in {"TAB", "SOH"}

\* The whitespace of operator>>(istream&, string&): std::isspace.
IsSpace(c) == c \in {SP, "TAB"}

\* IsValidWord without its check: every word passes.
IsValidWord_Unchecked(word) == TRUE

\* SearchServer::IsValidWord: no character of the word is a control character.
IsValidWord(word) == \A i \in 1..Len(word) : ~IsControl(word[i])

----------------------------------------------------------------------------
\* string_processing::SplitIntoWords(const std::string&): the runs that
\* `text_stream >> word` extracts.

\* operator>> skips whitespace, then reads up to the next whitespace: a word
\* starts at every non-space character that is first or follows a space.
IsWordStart(text, i) ==
    ~IsSpace(text[i]) /\ (i = 1 \/ IsSpace(text[i - 1]))

\* The position after the last character of the word that starts at i.
RECURSIVE WordEnd(_, _)
WordEnd(text, i) ==
    IF i <= Len(text) /\ ~IsSpace(text[i]) THEN WordEnd(text, i + 1) ELSE i

\* The words that start in lo..hi, in order.  The extraction loop of
\* SplitIntoWords walks the text left to right; the walk is split in halves
\* here so that its depth stays logarithmic in the length of the text.
RECURSIVE WordsStartingIn(_, _, _)
WordsStartingIn(text, lo, hi) ==
    IF lo > hi THEN << >>
    ELSE IF lo = hi
         THEN IF IsWordStart(text, lo)
              THEN << SubSeq(text, lo, WordEnd(text, lo) - 1) >>
              ELSE << >>
         ELSE LET mid == (lo + hi) \div 2
              IN  WordsStartingIn(text, lo, mid) \o WordsStartingIn(text, mid + 1, hi)

SplitIntoWords(text) == WordsStartingIn(text, 1, Len(text))

\* text.find(' '): the first index of a space, 0 for npos.
RECURSIVE FindSpace(_, _)
FindSpace(text, i) ==
    IF i > Len(text) THEN 0
    ELSE IF text[i] = SP THEN i ELSE FindSpace(text, i + 1)

\* string_processing::SplitIntoWords(std::string_view).
RECURSIVE SplitIntoWordsView(_)
SplitIntoWordsView(text) ==
    LET space_index == FindSpace(text, 1)
    IN  IF space_index = 0 THEN << text >>
        ELSE << SubSeq(text, 1, space_index - 1) >>
             \o SplitIntoWordsView(SubSeq(text, space_index + 1, Len(text)))

----------------------------------------------------------------------------
\* std::map helpers.

EmptyMap == << >>

MapErase(m, k) == [x \in (DOMAIN m) \ {k} |-> m[x]]

MapPut(m, k, v) == [x \in (DOMAIN m) \cup {k} |-> IF x = k THEN v ELSE m[x]]

Range(s) == {s[i] : i \in DOMAIN s}

\* The least element of a non-empty set of positions.
First(S) == CHOOSE n \in S : \A k \in S : n <= k

\* The order of std::string keys: operator< compares character codes.
Code(c) ==
    CASE c = "SOH" -> 1 [] c = "TAB" -> 9 [] c = SP -> 32 [] c = "-" -> 45
      [] c = "a" -> 97 [] c = "b" -> 98 [] c = "t" -> 116 [] c = "x" -> 120

RECURSIVE StringLess(_, _)
StringLess(u, v) ==
    IF Len(v) = 0 THEN FALSE
    ELSE IF Len(u) = 0 THEN TRUE
    ELSE IF Code(Head(u)) # Code(Head(v)) THEN Code(Head(u)) < Code(Head(v))
    ELSE StringLess(Tail(u), Tail(v))

\* The keys of a std::map<std::string, ...> or std::set<std::string> in
\* iteration order.
SortedWords(S) ==
    [k \in 1..Cardinality(S) |->
        CHOOSE w \in S : Cardinality({v \in S : StringLess(v, w)}) = k - 1]

\* The keys of a std::map<int, ...> or std::set<int> in iteration order.
SortedIds(S) ==
    [k \in 1..Cardinality(S) |->
        CHOOSE d \in S : Cardinality({e \in S : e < d}) = k - 1]

----------------------------------------------------------------------------
\* Term frequencies: the value num/den (a double in the source).

ZeroFrequency == [num |-> 0, den |-> 1]

\* frequency += count additions of 1.0 / word_count
AddFrequency(frequency, count, word_count) ==
    IF frequency.num = 0 THEN [num |-> count, den |-> word_count]
    ELSE IF frequency.den = word_count
         THEN [num |-> frequency.num + count, den |-> word_count]
         ELSE [num |-> frequency.num * word_count + count * frequency.den,
               den |-> frequency.den * word_count]

----------------------------------------------------------------------------
\* The doubles of the term frequencies (IEEE 754 binary64, round to nearest,
\* ties to even).  A double close to num / den is written
\*     (num * 2^60 + err) / (den * 2^60)
\* with an integer err; every double of at least 2^-7 has this form.

\* 2^n modulo m
RECURSIVE Pow2Mod(_, _)
Pow2Mod(n, m) ==
    IF n = 0 THEN 1 % m
    ELSE LET half == Pow2Mod(n \div 2, m)
         IN  IF n % 2 = 0 THEN (half * half) % m ELSE (2 * half * half) % m

RECURSIVE Pow2(_)
Pow2(n) == IF n = 0 THEN 1 ELSE 2 * Pow2(n - 1)

\* The binade of (num * 2^60 + err) / (den * 2^60): the least j with
\* 2^-j <= value.
Binade(num, den, err) ==
    CHOOSE j \in 0..8 :
        /\ num * Pow2(j) > den \/ (num * Pow2(j) = den /\ err >= 0)
        /\ \A i \in 0..(j - 1) :
               ~(num * Pow2(i) > den \/ (num * Pow2(i) = den /\ err >= 0))

\* The err of the double nearest to (num * 2^60 + err) / (den * 2^60): the
\* doubles of binade j are the multiples of 2^(8 - j) / 2^60.
RoundToDouble(num, den, err) ==
    LET m == den * Pow2(8 - Binade(num, den, err))
        r == (((num * Pow2Mod(60, m)) % m) + (err % m)) % m
        down == err - r
        up == err - r + m
        down_is_even ==
            (((num * Pow2Mod(60, 2 * m)) % (2 * m)) + (down % (2 * m))) % (2 * m) = 0
    IN  IF r = 0 THEN err
        ELSE IF 2 * r < m THEN down
        ELSE IF 2 * r > m THEN up
        ELSE IF down_is_even THEN down ELSE up

\* 1.0 / static_cast<double>(words.size())
InverseWordCountError(word_count) == RoundToDouble(1, word_count, 0)

\* The err of the double that num additions of inverse_word_count to 0.0
\* reach: each += rounds the exact sum.
RECURSIVE FrequencyError(_, _)
FrequencyError(num, den) ==
    IF num = 1 THEN InverseWordCountError(den)
    ELSE RoundToDouble(num, den,
                       FrequencyError(num - 1, den) + InverseWordCountError(den))

----------------------------------------------------------------------------
\* DocumentStatus (document.h, used at search_server.h:63).

DocumentStatus == {"ACTUAL", "IRRELEVANT", "BANNED", "REMOVED"}

\* SearchServer::IsStopWord
IsStopWord(word) == word \in stop_words_

\* SearchServer::SplitIntoWordsNoStop
SplitIntoWordsNoStop(text) ==
    SelectSeq(SplitIntoWords(text), LAMBDA word : ~IsStopWord(word))

\* C++ integer division truncates toward zero.
TruncDiv(a, b) == IF a >= 0 THEN a \div b ELSE -((-a) \div b)

RECURSIVE SumSeq(_)
SumSeq(s) == IF s = << >> THEN 0 ELSE Head(s) + SumSeq(Tail(s))

\* SearchServer::ComputeAverageRating, for a non-empty list of ratings.
ComputeAverageRating(ratings) == TruncDiv(SumSeq(ratings), Len(ratings))

\* SearchServer::GetDocumentCount
GetDocumentCount == Cardinality(DOMAIN document_id_to_document_data_)

\* SearchServer::GetWordFrequencies
GetWordFrequencies(document_id) ==
    IF document_id \in DOMAIN document_id_to_document_data_
    THEN document_id_to_document_data_[document_id].word_frequencies
    ELSE EmptyMap

\* SearchServer::begin / end: the live ids in ascending order.
LiveIds == SortedIds(document_ids_)

----------------------------------------------------------------------------
\* What a call returned or threw.  The caller makes one call at a time: a
\* call starts when the result of the call before it has been taken.

NoError == "none"

Nothing == [op |-> "none", args |-> << >>, error |-> NoError, result |-> << >>]

\* No parallel algorithm is in progress.
NoRun == [op |-> "none"]

Idle == last.op = "none" /\ running.op = "none"

\* The state a call begins in, kept to state what the call changed.
Snapshot ==
    [stop_words |-> stop_words_,
     inverted |-> word_to_document_id_to_term_frequency_,
     data |-> document_id_to_document_data_,
     ids |-> document_ids_,
     removed |-> removed]

NoSnapshot == << >>

Returned(op, args, result) ==
    [op |-> op, args |-> args, error |-> NoError, result |-> result]

Threw(op, args, what) ==
    [op |-> op, args |-> args, error |-> what, result |-> << >>]

----------------------------------------------------------------------------
\* SearchServer::SetStopWords applied to the stop words `stop`: the words of
\* the view tokenizer are added; an invalid word throws.
StopWordsAfter(stop, text) == stop \cup Range(SplitIntoWordsView(text))

SetStopWordsThrows(text) ==
    \E word \in Range(SplitIntoWordsView(text)) : ~IsValidWord(word)

\* SearchServer::SearchServer(const std::string&): the stop words of the
\* constructed object; the constructor throws when the text is not valid.
ConstructorThrows(stop_words) ==
    ~IsValidWord(stop_words) \/ SetStopWordsThrows(stop_words)

ConstructedStopWords(stop_words) == StopWordsAfter({}, stop_words)

\* SearchServer::SetStopWords: the words are emplaced one by one; the
\* first invalid word throws and the words before it stay emplaced.
SetStopWords(text) ==
    LET words == SplitIntoWordsView(text)
        invalid == {i \in 1..Len(words) : ~IsValidWord(words[i])}
    IN  /\ before' = Snapshot
        /\ IF invalid # {}
           THEN /\ stop_words_' =
                       stop_words_ \cup {words[i] : i \in 1..(First(invalid) - 1)}
                /\ last' = Threw("SetStopWords", << text >>, "Bad stop word")
           ELSE /\ stop_words_' = StopWordsAfter(stop_words_, text)
                /\ last' = Returned("SetStopWords", << text >>, << >>)
        /\ UNCHANGED << word_to_document_id_to_term_frequency_,
                        document_id_to_document_data_, document_ids_,
                        removed, running >>

----------------------------------------------------------------------------
\* SearchServer::AddDocument

\* The number of times word occurs in words.
Occurrences(words, word) == Cardinality({i \in 1..Len(words) : words[i] = word})

\* The loop of AddDocument on a map from word to frequency.
AddedWordFrequencies(words) ==
    [word \in Range(words) |->
        AddFrequency(ZeroFrequency, Occurrences(words, word), Len(words))]

\* The loop of AddDocument on the inverted index.
AddedPostings(inverted, words, document_id) ==
    [word \in (DOMAIN inverted) \cup Range(words) |->
        IF word \in Range(words)
        THEN LET inner == IF word \in DOMAIN inverted THEN inverted[word] ELSE EmptyMap
                 frequency == IF document_id \in DOMAIN inner
                              THEN inner[document_id] ELSE ZeroFrequency
             IN  MapPut(inner, document_id,
                        AddFrequency(frequency, Occurrences(words, word), Len(words)))
        ELSE inverted[word]]

\* The exception AddDocument throws, NoError when it throws none.
AddDocumentError(document_id, document) ==
    IF document_id < 0 THEN "negative ids are not allowed"
    ELSE IF document_id \in DOMAIN document_id_to_document_data_
         THEN "repeating ids are not allowed"
    ELSE IF ~IsValidWord(document)
         THEN "word in document contains unaccaptable symbol"
    ELSE NoError

AddDocument(document_id, document, status, ratings) ==
    LET what == AddDocumentError(document_id, document)
        words == SplitIntoWordsNoStop(document)
    IN  IF what # NoError
        THEN /\ before' = Snapshot
             /\ last' = Threw("AddDocument", << document_id, document, status, ratings >>, what)
             /\ UNCHANGED << index, removed, running >>
        ELSE /\ before' = Snapshot
             /\ word_to_document_id_to_term_frequency_' =
                    AddedPostings(word_to_document_id_to_term_frequency_,
                                  words, document_id)
             /\ document_ids_' = document_ids_ \cup {document_id}
             /\ document_id_to_document_data_' =
                    IF document_id \in DOMAIN document_id_to_document_data_
                    THEN document_id_to_document_data_
                    ELSE MapPut(document_id_to_document_data_, document_id,
                                [rating |-> ComputeAverageRating(ratings),
                                 status |-> status,
                                 word_frequencies |-> AddedWordFrequencies(words)])
             /\ last' = Returned("AddDocument", << document_id, document, status, ratings >>, TRUE)
             /\ removed' = removed \ {document_id}
             /\ UNCHANGED << stop_words_, running >>

----------------------------------------------------------------------------
\* SearchServer::RemoveDocument

\* ErasedFrom with a lambda that takes its element by value: nothing is erased.
ErasedFrom_ByValue(id_to_frequency, document_id, policy) == id_to_frequency

\* ErasedFrom with element.clear() in place of element.erase(document_id).
ErasedFrom_Cleared(id_to_frequency, document_id, policy) ==
    [i \in DOMAIN id_to_frequency |-> EmptyMap]

\* element.erase(document_id) on every element of id_to_frequency.  Under
\* Policy::parallel the elements are distinct objects and each task erases
\* from its own element only, so both policies end with the same vector.
ErasedFrom(id_to_frequency, document_id, policy) ==
    [i \in DOMAIN id_to_frequency |-> MapErase(id_to_frequency[i], document_id)]

\* PutBackOne without the erase of a word whose inner map is empty.
PutBackOne_KeepsEmpty(inverted, word, inner) == MapPut(inverted, word, inner)

\* ErasedIds without the erase.
ErasedIds_Kept(ids, document_id) == ids

\* word_to_document_id_to_term_frequency_.at(word) = std::move(*(it++)),
\* and the erase of a word whose inner map is empty.
PutBackOne(inverted, word, inner) ==
    IF inner = EmptyMap THEN MapErase(inverted, word) ELSE MapPut(inverted, word, inner)

\* document_ids_.erase(document_id)
ErasedIds(ids, document_id) == ids \ {document_id}

\* The loop that puts the first n inner maps back and drops the empty ones.
RECURSIVE PutBack(_, _, _, _)
PutBack(inverted, words, id_to_frequency, n) ==
    IF n = 0 THEN inverted
    ELSE LET rest == PutBack(inverted, words, id_to_frequency, n - 1)
         IN  PutBackOne(rest, words[n], id_to_frequency[n])

RemoveDocument(document_id, policy) ==
    /\ before' = Snapshot
    /\ IF document_id \notin DOMAIN document_id_to_document_data_
       THEN /\ last' = Returned("RemoveDocument", << document_id, policy >>, << >>)
            /\ UNCHANGED << index, removed, running >>
       ELSE LET words_and_frequencies == GetWordFrequencies(document_id)
                words == SortedWords(DOMAIN words_and_frequencies)
                missing == {n \in 1..Len(words) :
                               words[n] \notin DOMAIN word_to_document_id_to_term_frequency_}
            IN  IF missing # {}
                THEN \* map::at throws; the maps already moved from are left empty
                     LET first == CHOOSE n \in missing : \A m \in missing : n <= m
                     IN  /\ word_to_document_id_to_term_frequency_' =
                               [word \in DOMAIN word_to_document_id_to_term_frequency_ |->
                                   IF \E n \in 1..(first - 1) : words[n] = word
                                   THEN EmptyMap
                                   ELSE word_to_document_id_to_term_frequency_[word]]
                         /\ last' = Threw("RemoveDocument", << document_id, policy >>, "map::at")
                         /\ UNCHANGED << stop_words_, document_id_to_document_data_,
                                         document_ids_, removed, running >>
                ELSE LET id_to_frequency ==
                             [n \in 1..Len(words) |->
                                 word_to_document_id_to_term_frequency_[words[n]]]
                         erased == ErasedFrom(id_to_frequency, document_id, policy)
                     IN  /\ word_to_document_id_to_term_frequency_' =
                               PutBack(word_to_document_id_to_term_frequency_,
                                       words, erased, Len(words))
                         /\ document_id_to_document_data_' =
                               MapErase(document_id_to_document_data_, document_id)
                         /\ document_ids_' = ErasedIds(document_ids_, document_id)
                         /\ last' = Returned("RemoveDocument", << document_id, policy >>, << >>)
                         /\ removed' = removed \cup {document_id}
                         /\ UNCHANGED << stop_words_, running >>

----------------------------------------------------------------------------
\* SearchServer::ParseQueryWord: [ok, data, is_minus, is_stop]

ParseQueryWord(text) ==
    IF Len(text) = 0
    THEN [ok |-> FALSE, data |-> << >>, is_minus |-> FALSE, is_stop |-> FALSE]
    ELSE LET is_minus == text[1] = "-"
             data == IF is_minus THEN Tail(text) ELSE text
         IN  IF Len(data) = 0 \/ data[1] = "-" \/ ~IsValidWord(data)
             THEN [ok |-> FALSE, data |-> << >>, is_minus |-> FALSE, is_stop |-> FALSE]
             ELSE [ok |-> TRUE, data |-> data, is_minus |-> is_minus,
                   is_stop |-> IsStopWord(data)]

\* SearchServer::ParseQuery: [ok, plus_words, minus_words]
ParseQuery(text) ==
    LET words == SplitIntoWords(text)
        parsed == [i \in 1..Len(words) |-> ParseQueryWord(words[i])]
        kept == {i \in 1..Len(words) : ~parsed[i].is_stop}
    IN  IF \E i \in 1..Len(words) : ~parsed[i].ok
        THEN [ok |-> FALSE, plus_words |-> {}, minus_words |-> {}]
        ELSE [ok |-> TRUE,
              plus_words |-> {parsed[i].data : i \in {k \in kept : ~parsed[k].is_minus}},
              minus_words |-> {parsed[i].data : i \in {k \in kept : parsed[k].is_minus}}]

----------------------------------------------------------------------------
\* Relevance, in units of 1e-9.

\* round(1e9 * ln(n)) for n = 1..8
LnTable ==
    << 0, 693147181, 1098612289, 1386294361,
       1609437912, 1791759469, 1945910149, 2079441542 >>

\* std::log(static_cast<double>(count) / containing)
Log(count, containing) == LnTable[count] - LnTable[containing]

\* kAccuracy = 1e-6, in units of 1e-9
kAccuracy == 1000

kMaxResultDocumentCount == 5

\* SearchServer::ComputeWordInverseDocumentFrequency
ComputeWordInverseDocumentFrequency(word) ==
    Log(GetDocumentCount,
        Cardinality(DOMAIN word_to_document_id_to_term_frequency_[word]))

\* term_frequency * inverse_document_frequency
Product(term_frequency, inverse_document_frequency) ==
    (inverse_document_frequency \div term_frequency.den) * term_frequency.num
    + ((inverse_document_frequency % term_frequency.den) * term_frequency.num)
      \div term_frequency.den

RECURSIVE SumOver(_, _)
SumOver(S, f) ==
    IF S = {} THEN 0
    ELSE LET x == CHOOSE y \in S : TRUE IN f[x] + SumOver(S \ {x}, f)

\* AfterLookups with operator[] in place of count and at: a word that is
\* looked up and is not a key becomes a key with an empty inner map.
AfterLookups_Subscript(inverted, words) ==
    [word \in (DOMAIN inverted) \cup words |->
        IF word \in DOMAIN inverted THEN inverted[word] ELSE EmptyMap]

\* The inverted index after the words of a query have been looked up in it
\* with count(word) and at(word), in a const member function: as it was.
AfterLookups(inverted, words) == inverted

\* ErasedByMinusWords without the loop over the minus words.
ErasedByMinusWords_None(query) == {}

\* The ids the loop over the minus words erases from document_id_to_relevance.
ErasedByMinusWords(query) ==
    LET inverted == word_to_document_id_to_term_frequency_
    IN  UNION {DOMAIN inverted[word] : word \in query.minus_words \cap DOMAIN inverted}

\* SearchServer::FindAllDocuments: the map document_id_to_relevance after
\* both loops.
DocumentIdToRelevance(query) ==
    LET inverted == word_to_document_id_to_term_frequency_
        plus == query.plus_words \cap DOMAIN inverted
        added == UNION {DOMAIN inverted[word] : word \in plus}
        erased == ErasedByMinusWords(query)
    IN  [document_id \in added \ erased |->
            LET with == {word \in plus : document_id \in DOMAIN inverted[word]}
            IN  SumOver(with,
                    [word \in with |->
                        Product(inverted[word][document_id],
                                ComputeWordInverseDocumentFrequency(word))])]

\* SearchServer::FindAllDocuments: the documents in ascending id order.
FindAllDocuments(query) ==
    LET document_id_to_relevance == DocumentIdToRelevance(query)
        ids == SortedIds(DOMAIN document_id_to_relevance)
    IN  [n \in 1..Len(ids) |->
            [id |-> ids[n],
             relevance |-> document_id_to_relevance[ids[n]],
             rating |-> document_id_to_document_data_[ids[n]].rating]]

\* document_id_to_document_data_.at(document_id) of FindAllDocuments throws
\* for an id without document data.
FindAllDocumentsThrows(query) ==
    \E document_id \in DOMAIN DocumentIdToRelevance(query) :
        document_id \notin DOMAIN document_id_to_document_data_

----------------------------------------------------------------------------
\* SearchServer::FindTopDocuments

\* The predicates of the callers: a status (the overload with a status
\* compares the document's status with it), or one of the lambdas below.
Predicate(predicate, document_id, document_status, document_rating) ==
    CASE predicate = "ANY" -> TRUE
      [] predicate = "EVEN_ID" -> document_id % 2 = 0
      [] predicate = "POSITIVE_RATING" -> document_rating > 0
      [] OTHER -> document_status = predicate

Abs(n) == IF n < 0 THEN -n ELSE n

\* The comparator handed to std::sort.
Compare(left, right) ==
    IF Abs(left.relevance - right.relevance) < kAccuracy
    THEN left.rating > right.rating
    ELSE left.relevance > right.relevance

\* Compare is a strict weak ordering of the documents in S: irreflexive,
\* transitive, and with a transitive incomparability.
Equivalent(a, b) == ~Compare(a, b) /\ ~Compare(b, a)

IsStrictWeakOrdering(S) ==
    /\ \A a \in S : ~Compare(a, a)
    /\ \A a, b, c \in S : Compare(a, b) /\ Compare(b, c) => Compare(a, c)
    /\ \A a, b, c \in S : Equivalent(a, b) /\ Equivalent(b, c) => Equivalent(a, c)

\* What std::sort may leave in the vector: sorted by Compare when Compare
\* is a strict weak ordering of the elements (the sort is not stable, so
\* equivalent elements end in any order); the behaviour is undefined
\* otherwise, and then the elements may end in any order.
SortOutcomes(documents) ==
    LET n == Len(documents)
        orders == {[i \in 1..n |-> documents[p[i]]] : p \in Permutations(1..n)}
    IN  IF IsStrictWeakOrdering(Range(documents))
        THEN {sorted \in orders :
                 \A i, j \in 1..n : i < j => ~Compare(sorted[j], sorted[i])}
        ELSE orders

\* filtered_documents before the sort.
FilteredDocuments(query, predicate) ==
    SelectSeq(FindAllDocuments(query),
              LAMBDA document :
                  Predicate(predicate, document.id,
                            document_id_to_document_data_[document.id].status,
                            document_id_to_document_data_[document.id].rating))

\* Truncated without the resize.
Truncated_None(documents) == documents

\* resize(kMaxResultDocumentCount) when the vector is longer.
Truncated(documents) ==
    IF Len(documents) > kMaxResultDocumentCount
    THEN SubSeq(documents, 1, kMaxResultDocumentCount)
    ELSE documents

\* The exception FindTopDocuments throws, NoError when it throws none.
FindTopDocumentsError(raw_query) ==
    IF ~ParseQuery(raw_query).ok THEN "invalid request"
    ELSE IF FindAllDocumentsThrows(ParseQuery(raw_query)) THEN "map::at"
    ELSE NoError

\* The vectors FindTopDocuments may return.
FindTopDocumentsResults(raw_query, predicate) ==
    IF FindTopDocumentsError(raw_query) # NoError THEN {}
    ELSE {Truncated(sorted) :
             sorted \in SortOutcomes(FilteredDocuments(ParseQuery(raw_query),
                                                       predicate))}

FindTopDocuments(raw_query, predicate) ==
    /\ before' = Snapshot
    /\ IF FindTopDocumentsError(raw_query) # NoError
       THEN last' = Threw("FindTopDocuments", << raw_query, predicate >>,
                          FindTopDocumentsError(raw_query))
       ELSE \E result \in FindTopDocumentsResults(raw_query, predicate) :
                last' = Returned("FindTopDocuments", << raw_query, predicate >>, result)
    /\ word_to_document_id_to_term_frequency_' =
           IF ParseQuery(raw_query).ok
           THEN AfterLookups(word_to_document_id_to_term_frequency_,
                             ParseQuery(raw_query).plus_words
                             \cup ParseQuery(raw_query).minus_words)
           ELSE word_to_document_id_to_term_frequency_
    /\ UNCHANGED << stop_words_, document_id_to_document_data_, document_ids_,
                    removed, running >>

----------------------------------------------------------------------------
\* SearchServer::MatchDocument

\* MatchedWords without the loop over the minus words.
MatchedWords_NoMinus(query, document_id) ==
    LET inverted == word_to_document_id_to_term_frequency_
    IN  SortedWords({word \in query.plus_words \cap DOMAIN inverted :
                        document_id \in DOMAIN inverted[word]})

\* matched_words after the loops over the plus words (in the order of the
\* set) and over the minus words.
MatchedWords(query, document_id) ==
    LET inverted == word_to_document_id_to_term_frequency_
    IN  IF \E word \in query.minus_words \cap DOMAIN inverted :
               document_id \in DOMAIN inverted[word]
        THEN << >>
        ELSE SortedWords({word \in query.plus_words \cap DOMAIN inverted :
                             document_id \in DOMAIN inverted[word]})

\* The exception MatchDocument throws, NoError when it throws none:
\* document_id_to_document_data_.at throws for an id that is not live.
MatchDocumentError(raw_query, document_id) ==
    IF ~ParseQuery(raw_query).ok THEN "invalid request"
    ELSE IF document_id \notin DOMAIN document_id_to_document_data_ THEN "map::at"
    ELSE NoError

\* The policy is not looked at.
MatchDocument(raw_query, document_id, policy) ==
    /\ before' = Snapshot
    /\ last' = IF MatchDocumentError(raw_query, document_id) # NoError
               THEN Threw("MatchDocument", << raw_query, document_id, policy >>,
                          MatchDocumentError(raw_query, document_id))
               ELSE Returned("MatchDocument", << raw_query, document_id, policy >>,
                             [words |-> MatchedWords(ParseQuery(raw_query), document_id),
                              status |-> document_id_to_document_data_[document_id].status])
    /\ word_to_document_id_to_term_frequency_' =
           IF ParseQuery(raw_query).ok
           THEN AfterLookups(word_to_document_id_to_term_frequency_,
                             ParseQuery(raw_query).plus_words
                             \cup ParseQuery(raw_query).minus_words)
           ELSE word_to_document_id_to_term_frequency_
    /\ UNCHANGED << stop_words_, document_id_to_document_data_, document_ids_,
                    removed, running >>

----------------------------------------------------------------------------
\* The getters: GetWordFrequencies, GetDocumentCount, and the iteration
\* from begin() to end().

GetWordFrequenciesReturn(document_id) ==
    /\ before' = Snapshot
    /\ last' = Returned("GetWordFrequencies", << document_id >>,
                        GetWordFrequencies(document_id))
    /\ UNCHANGED << index, removed, running >>

GetDocumentCountReturn ==
    /\ before' = Snapshot
    /\ last' = Returned("GetDocumentCount", << >>, GetDocumentCount)
    /\ UNCHANGED << index, removed, running >>

IterationReturn ==
    /\ before' = Snapshot
    /\ last' = Returned("begin", << >>, LiveIds)
    /\ UNCHANGED << index, removed, running >>

----------------------------------------------------------------------------
\* The calls of the model: small sets of arguments.

\* Document ids run from -1 (not allowed) to MaxId.
MaxId == 1

DocumentIds == -1..MaxId

\* "", "t", "a", "b b a", and "a<TAB>b" with a control character
Documents ==
    { << >>, << "t" >>, << "a" >>, << "b", SP, "b", SP, "a" >>,
      << "a", "TAB", "b" >> }

\* A status with a list of ratings: the averages are 5, -1 (the sum -3
\* divided by 2, truncated) and 5.
StatusesAndRatings ==
    { << "ACTUAL", << 5 >> >>, << "ACTUAL", << -3, 0 >> >>, << "BANNED", << 5 >> >> }

\* "a", "a -b", "b t", "-b a b" and the invalid "a --b"
Queries ==
    { << "a" >>, << "a", SP, "-", "b" >>, << "b", SP, "t" >>,
      << "-", "b", SP, "a", SP, "b" >>, << "a", SP, "-", "-", "b" >> }

Predicates == {"ACTUAL", "ANY"}

Policies == {"sequential", "parallel"}

\* The stop words handed to the constructor: "t".
StopWordTexts == { << "t" >> }

\* A default-constructed server, or one constructed from stop words.
Init ==
    /\ \/ stop_words_ = {}
       \/ \E stop_words \in StopWordTexts :
              /\ ~ConstructorThrows(stop_words)
              /\ stop_words_ = ConstructedStopWords(stop_words)
    /\ word_to_document_id_to_term_frequency_ = EmptyMap
    /\ document_id_to_document_data_ = EmptyMap
    /\ document_ids_ = {}
    /\ last = Nothing
    /\ before = NoSnapshot
    /\ removed = {}
    /\ running = NoRun

AddDocumentCall ==
    /\ Idle
    /\ \E document_id \in DocumentIds, document \in Documents,
          status_and_ratings \in StatusesAndRatings :
           AddDocument(document_id, document,
                       status_and_ratings[1], status_and_ratings[2])

RemoveDocumentCall ==
    /\ Idle
    /\ \E document_id \in DocumentIds, policy \in Policies :
           RemoveDocument(document_id, policy)

FindTopDocumentsCall ==
    /\ Idle
    /\ \E raw_query \in Queries, predicate \in Predicates :
           FindTopDocuments(raw_query, predicate)

MatchDocumentCall ==
    /\ Idle
    /\ \E raw_query \in Queries, document_id \in DocumentIds, policy \in Policies :
           MatchDocument(raw_query, document_id, policy)

GetWordFrequenciesCall ==
    /\ Idle
    /\ \E document_id \in DocumentIds : GetWordFrequenciesReturn(document_id)

GetDocumentCountCall == Idle /\ GetDocumentCountReturn

IterationCall == Idle /\ IterationReturn

\* The caller takes what the call returned or threw.
TakeResult ==
    /\ last.op # "none"
    /\ last' = Nothing
    /\ before' = NoSnapshot
    /\ running' = NoRun
    /\ UNCHANGED << index, removed >>

Next ==
    AddDocumentCall \/ RemoveDocumentCall \/ FindTopDocumentsCall
    \/ MatchDocumentCall \/ GetWordFrequenciesCall \/ GetDocumentCountCall
    \/ IterationCall \/ TakeResult

Spec == Init /\ [][Next]_vars

----------------------------------------------------------------------------
\* The same calls on long documents, whose relevances lie within kAccuracy
\* of each other without being equal.

\* The number of words of the shortest long document.
LongLen == 600

\* "x b b ... b": the word x and n - 1 words b.
LongText(n) ==
    [i \in 1..(2 * n - 1) |-> IF i = 1 THEN "x" ELSE IF i % 2 = 0 THEN SP ELSE "b"]

\* The ids of the long documents run from 0 to MaxLongId.
MaxLongId == 3

LongDocumentIds == 0..MaxLongId

\* An id with its text and its list of ratings: the higher the id, the
\* longer the text and the higher the rating; the last id has the short
\* text "b".
LongDocuments ==
    { << document_id,
         IF document_id < MaxLongId THEN LongText(LongLen + document_id) ELSE << "b" >>,
         << 1 + document_id >> >> : document_id \in LongDocumentIds }

\* "x" and "x -b"
LongQueries == { << "x" >>, << "x", SP, "-", "b" >> }

AddLongDocumentCall ==
    /\ Idle
    /\ \E document \in LongDocuments :
           AddDocument(document[1], document[2], "ACTUAL", document[3])

RemoveLongDocumentCall ==
    /\ Idle
    /\ \E document_id \in LongDocumentIds, policy \in Policies :
           RemoveDocument(document_id, policy)

FindTopLongDocumentsCall ==
    /\ Idle
    /\ \E raw_query \in LongQueries : FindTopDocuments(raw_query, "ACTUAL")

NextLong ==
    AddLongDocumentCall \/ RemoveLongDocumentCall \/ FindTopLongDocumentsCall
    \/ TakeResult

SpecLong == Init /\ [][NextLong]_vars

----------------------------------------------------------------------------
\* ProcessQueries (process_queries.cpp) and ProcessQueriesJoined
\* (process_queries.h).  std::transform with std::execution::par runs one
\* task per query, in any order; a task evaluates FindTopDocuments on the
\* index, which no call changes while the batch is in flight, and writes
\* its output slot.

\* SlotOf with every task writing through the same output iterator.
SlotOf_First(i) == 1

\* The output slot of the task of queries[i]: std::transform assigns the
\* result for *(first + i) to *(d_first + i).
SlotOf(i) == i

\* The lambda func of ProcessQueriesJoined: second is pushed back onto first.
JoinFunc(first, second) == first \o second

\* GENERALIZED_SUM(func, operands[i] for i in I) of std::reduce: func is
\* applied to the operands in any grouping and in any order of the operands.
RECURSIVE GeneralizedSums(_, _)
GeneralizedSums(operands, I) ==
    IF Cardinality(I) = 1 THEN {operands[CHOOSE i \in I : TRUE]}
    ELSE UNION {{JoinFunc(x, y) : x \in GeneralizedSums(operands, L),
                                  y \in GeneralizedSums(operands, I \ L)} :
                   L \in (SUBSET I) \ {{}, I}}

\* std::reduce(std::execution::par, begin, end, init, func)
ReduceOutcomes(init, elements) ==
    GeneralizedSums(<< init >> \o elements, 1..(Len(elements) + 1))

\* std::vector<std::vector<Document>> output(queries.size()), and the
\* transform is started.
ProcessQueriesStart(queries, joined) ==
    /\ before' = Snapshot
    /\ running' = [op |-> "ProcessQueries",
                   joined |-> joined,
                   queries |-> queries,
                   output |-> [i \in 1..Len(queries) |-> << >>],
                   pending |-> 1..Len(queries),
                   writes |-> [i \in 1..Len(queries) |-> 0]]
    /\ UNCHANGED << index, removed, last >>

\* AfterException with the exception swallowed: the task ends and leaves
\* its slot as it was.
AfterException_Swallowed(run, i) == [run EXCEPT !.pending = @ \ {i}]

\* An exception leaves func in task i: under std::execution::par the
\* program is ended with std::terminate, and no other step follows.
AfterException(run, i) == [run EXCEPT !.op = "std::terminate"]

\* The task of queries[i].
ProcessQueriesTask(i) ==
    /\ running.op = "ProcessQueries"
    /\ i \in running.pending
    /\ IF FindTopDocumentsError(running.queries[i]) # NoError
       THEN running' = AfterException(running, i)
       ELSE \E result \in FindTopDocumentsResults(running.queries[i], "ACTUAL") :
                running' = [running EXCEPT
                               !.output[SlotOf(i)] = result,
                               !.writes[SlotOf(i)] = @ + 1,
                               !.pending = @ \ {i}]
    /\ UNCHANGED << index, removed, last, before >>

\* return output
ProcessQueriesReturn ==
    /\ running.op = "ProcessQueries"
    /\ running.pending = {}
    /\ ~running.joined
    /\ last.op = "none"
    /\ last' = Returned("ProcessQueries", << running.queries >>, running.output)
    /\ UNCHANGED << index, removed, before, running >>

\* ProcessQueriesJoined: the reduction of the lists ProcessQueries returned.
ProcessQueriesJoinedReturn ==
    /\ running.op = "ProcessQueries"
    /\ running.pending = {}
    /\ running.joined
    /\ last.op = "none"
    /\ \E result \in ReduceOutcomes(<< >>, running.output) :
           last' = Returned("ProcessQueriesJoined", << running.queries >>, result)
    /\ UNCHANGED << index, removed, before, running >>

\* The documents of the batches: "a" under id 0, "b b a" under id 1 and
\* "x b a" under id 2.
BatchDocuments ==
    { << 0, << "a" >>, << 5 >> >>,
      << 1, << "b", SP, "b", SP, "a" >>, << 4 >> >>,
      << 2, << "x", SP, "b", SP, "a" >>, << 3 >> >> }

\* "a", "b t" and the invalid "a --b"
BatchQueries ==
    { << "a" >>, << "b", SP, "t" >>, << "a", SP, "-", "-", "b" >> }

\* A batch holds up to MaxBatch queries.
MaxBatch == 2

Batches == UNION {[1..n -> BatchQueries] : n \in 0..MaxBatch}

AddBatchDocumentCall ==
    /\ Idle
    /\ \E document \in BatchDocuments :
           AddDocument(document[1], document[2], "ACTUAL", document[3])

ProcessQueriesCall ==
    /\ Idle
    /\ \E queries \in Batches, joined \in BOOLEAN :
           ProcessQueriesStart(queries, joined)

ProcessQueriesStep ==
    /\ running.op = "ProcessQueries"
    /\ \E i \in running.pending : ProcessQueriesTask(i)

NextQueries ==
    AddBatchDocumentCall \/ ProcessQueriesCall \/ ProcessQueriesStep
    \/ ProcessQueriesReturn \/ ProcessQueriesJoinedReturn \/ TakeResult

SpecQueries == Init /\ [][NextQueries]_vars

----------------------------------------------------------------------------
\* SearchServer::RemoveDocument in steps: the inner maps are moved out, one
\* task of std::for_each erases the id from each of them, and the maps are
\* put back.  Under Policy::parallel the tasks run in any order, under
\* Policy::sequential in the order of the vector.

\* ElementOf with every task working on the first element.
ElementOf_First(n) == 1

\* The element of id_to_frequency that task n of std::for_each is handed.
ElementOf(n) == n

\* The call up to the for_each.  A call for an unknown id returns at once;
\* the inner maps moved from are left empty until they are assigned again.
RemoveDocumentStart(document_id, policy) ==
    LET words == SortedWords(DOMAIN GetWordFrequencies(document_id))
    IN  IF \/ document_id \notin DOMAIN document_id_to_document_data_
           \/ \E n \in 1..Len(words) :
                  words[n] \notin DOMAIN word_to_document_id_to_term_frequency_
        THEN RemoveDocument(document_id, policy)
        ELSE /\ before' = Snapshot
             /\ running' = [op |-> "RemoveDocument",
                            document_id |-> document_id,
                            policy |-> policy,
                            words |-> words,
                            id_to_frequency |->
                                [n \in 1..Len(words) |->
                                    word_to_document_id_to_term_frequency_[words[n]]],
                            pending |-> 1..Len(words),
                            active |-> {},
                            done |-> << >>]
             /\ word_to_document_id_to_term_frequency_' =
                    [word \in DOMAIN word_to_document_id_to_term_frequency_ |->
                        IF word \in Range(words) THEN EmptyMap
                        ELSE word_to_document_id_to_term_frequency_[word]]
             /\ UNCHANGED << stop_words_, document_id_to_document_data_,
                             document_ids_, removed, last >>

\* Task n of the for_each is started and handed its element: the pair of
\* the task and the element is active until the task ends.  Under
\* Policy::parallel tasks are started while others are active.
RemoveDocumentTaskStart(n) ==
    /\ running.op = "RemoveDocument"
    /\ n \in running.pending
    /\ \A pair \in running.active : pair[1] # n
    /\ running.policy = "sequential" =>
           n = First(running.pending) /\ running.active = {}
    /\ running' = [running EXCEPT !.active = @ \cup {<< n, ElementOf(n) >>}]
    /\ UNCHANGED << index, removed, last, before >>

\* Task n of the for_each: element.erase(document_id), and the task ends.
RemoveDocumentTask(n) ==
    /\ running.op = "RemoveDocument"
    /\ \E pair \in running.active :
           /\ pair[1] = n
           /\ running' = [running EXCEPT
                             !.id_to_frequency[pair[2]] = MapErase(@, running.document_id),
                             !.pending = @ \ {n},
                             !.active = @ \ {pair},
                             !.done = Append(@, n)]
    /\ UNCHANGED << index, removed, last, before >>

\* The call after the for_each: the maps are put back, the words left
\* without a document and the document are erased.
RemoveDocumentFinish ==
    /\ running.op = "RemoveDocument"
    /\ running.pending = {}
    /\ last.op = "none"
    /\ word_to_document_id_to_term_frequency_' =
           PutBack(word_to_document_id_to_term_frequency_, running.words,
                   running.id_to_frequency, Len(running.words))
    /\ document_id_to_document_data_' =
           MapErase(document_id_to_document_data_, running.document_id)
    /\ document_ids_' = ErasedIds(document_ids_, running.document_id)
    /\ last' = Returned("RemoveDocument",
                        << running.document_id, running.policy >>, << >>)
    /\ removed' = removed \cup {running.document_id}
    /\ UNCHANGED << stop_words_, before, running >>

RemoveDocumentStartCall ==
    /\ Idle
    /\ \E document \in BatchDocuments, policy \in Policies :
           RemoveDocumentStart(document[1], policy)

RemoveDocumentStepStart ==
    /\ running.op = "RemoveDocument"
    /\ \E n \in running.pending : RemoveDocumentTaskStart(n)

RemoveDocumentStep ==
    /\ running.op = "RemoveDocument"
    /\ \E n \in running.pending : RemoveDocumentTask(n)

NextRemove ==
    AddBatchDocumentCall \/ RemoveDocumentStartCall \/ RemoveDocumentStepStart
    \/ RemoveDocumentStep \/ RemoveDocumentFinish \/ TakeResult

SpecRemove == Init /\ [][NextRemove]_vars

----------------------------------------------------------------------------
\* The tokenizers and the query parser on every text of up to MaxTextLen
\* characters.

MaxTextLen == 4

\* The characters of the texts: two letters (one of them the stop word "t"),
\* the minus sign, the space and the two control characters.
TextChars == {"a", "t", "-", SP, "TAB", "SOH"}

Texts == UNION {[1..n -> TextChars] : n \in 0..MaxTextLen}

SplitIntoWordsCall ==
    /\ Idle
    /\ \E text \in Texts :
           /\ last' = Returned("SplitIntoWords", << text >>, SplitIntoWords(text))
           /\ before' = Snapshot
           /\ UNCHANGED << index, removed, running >>

SplitIntoWordsViewCall ==
    /\ Idle
    /\ \E text \in Texts :
           /\ last' = Returned("SplitIntoWordsView", << text >>, SplitIntoWordsView(text))
           /\ before' = Snapshot
           /\ UNCHANGED << index, removed, running >>

\* The document the queries are matched against: "a" under id 0.
AddTextDocumentCall ==
    /\ Idle
    /\ AddDocument(0, << "a" >>, "ACTUAL", << 5 >>)

FindTopTextCall ==
    /\ Idle
    /\ \E raw_query \in Texts : FindTopDocuments(raw_query, "ACTUAL")

MatchTextCall ==
    /\ Idle
    /\ \E raw_query \in Texts : MatchDocument(raw_query, 0, "sequential")

NextText ==
    SplitIntoWordsCall \/ SplitIntoWordsViewCall \/ AddTextDocumentCall
    \/ FindTopTextCall \/ MatchTextCall \/ TakeResult

SpecText == Init /\ [][NextText]_vars

----------------------------------------------------------------------------
\* SetStopWords among inserts and removals.

\* "a", "", "-b" and "b <SOH>", whose second word is not valid
StopWordArguments ==
    { << "a" >>, << >>, << "-", "b" >>, << "b", SP, "SOH" >> }

\* "a" under id 0, "-b a" under id 1
StopDocuments ==
    { << 0, << "a" >> >>, << 1, << "-", "b", SP, "a" >> >> }

SetStopWordsCall ==
    /\ Idle
    /\ \E text \in StopWordArguments : SetStopWords(text)

AddStopDocumentCall ==
    /\ Idle
    /\ \E document \in StopDocuments :
           AddDocument(document[1], document[2], "ACTUAL", << 5 >>)

RemoveStopDocumentCall ==
    /\ Idle
    /\ \E document \in StopDocuments, policy \in Policies :
           RemoveDocument(document[1], policy)

NextStop ==
    SetStopWordsCall \/ AddStopDocumentCall \/ RemoveStopDocumentCall \/ TakeResult

SpecStop == Init /\ [][NextStop]_vars

----------------------------------------------------------------------------
\* More documents than a result holds: six documents with the word "a",
\* one of them with "b" as well, one of them banned, with ratings 1 to 6.

ManyDocuments ==
    { << 0, << "a" >>, "ACTUAL", << 1 >> >>,
      << 1, << "a" >>, "ACTUAL", << 2 >> >>,
      << 2, << "a" >>, "ACTUAL", << 3 >> >>,
      << 3, << "a" >>, "ACTUAL", << 4 >> >>,
      << 4, << "a", SP, "b" >>, "ACTUAL", << 5 >> >>,
      << 5, << "a" >>, "BANNED", << 6 >> >> }

\* "a", "a -b" and "b t"
ManyQueries ==
    { << "a" >>, << "a", SP, "-", "b" >>, << "b", SP, "t" >> }

AddManyDocumentCall ==
    /\ Idle
    /\ \E document \in ManyDocuments :
           AddDocument(document[1], document[2], document[3], document[4])

RemoveManyDocumentCall ==
    /\ Idle
    /\ \E document \in ManyDocuments : RemoveDocument(document[1], "parallel")

FindTopManyDocumentsCall ==
    /\ Idle
    /\ \E raw_query \in ManyQueries, predicate \in Predicates :
           FindTopDocuments(raw_query, predicate)

NextMany ==
    AddManyDocumentCall \/ RemoveManyDocumentCall \/ FindTopManyDocumentsCall
    \/ TakeResult

SpecMany == Init /\ [][NextMany]_vars

----------------------------------------------------------------------------
\* Documents of up to MaxWords words: the word "a" n times, then the word
\* "b" m times.

MaxWords == 9

RepeatedText(n, m) ==
    [i \in 1..(2 * (n + m) - 1) |->
        IF i % 2 = 0 THEN SP ELSE IF i < 2 * n THEN "a" ELSE "b"]

RepeatedTexts ==
    {RepeatedText(n, m) : n \in 0..MaxWords, m \in 0..MaxWords} \ {<< >>}

AddRepeatedDocumentCall ==
    /\ Idle
    /\ \E document \in {text \in RepeatedTexts : Len(text) < 2 * MaxWords} :
           AddDocument(0, document, "ACTUAL", << 5 >>)

RemoveRepeatedDocumentCall ==
    /\ Idle
    /\ \E policy \in Policies : RemoveDocument(0, policy)

NextRepeated ==
    AddRepeatedDocumentCall \/ RemoveRepeatedDocumentCall
    \/ GetWordFrequenciesCall \/ TakeResult

SpecRepeated == Init /\ [][NextRepeated]_vars

----------------------------------------------------------------------------
\* Properties.

\* The ids under which word is indexed: the keys of inverted[word].
DocumentsWith(word) ==
    IF word \in DOMAIN word_to_document_id_to_term_frequency_
    THEN DOMAIN word_to_document_id_to_term_frequency_[word]
    ELSE {}

\* The same in the state a call began in.
DocumentsWithBefore(word) ==
    IF word \in DOMAIN before.inverted THEN DOMAIN before.inverted[word] ELSE {}

\* The words indexed under document_id.
WordsOf(document_id) ==
    {word \in DOMAIN word_to_document_id_to_term_frequency_ :
        document_id \in DocumentsWith(word)}

\* Every term the state knows of.
Terms ==
    (DOMAIN word_to_document_id_to_term_frequency_)
    \cup UNION {DOMAIN document_id_to_document_data_[d].word_frequencies :
                   d \in DOMAIN document_id_to_document_data_}

\* The union of the inner key sets of the inverted index.
IndexedIds == UNION {DocumentsWith(word) : word \in DOMAIN word_to_document_id_to_term_frequency_}

\* The call in progress is op and has returned.
Done(op) == last.op = op /\ last.error = NoError

\* The call in progress is a RemoveDocument of a document that was live.
RemovedLive ==
    Done("RemoveDocument") /\ last.args[1] \in before.ids

\* The index is as it was when the call in progress began.
IndexUnchanged ==
    /\ stop_words_ = before.stop_words
    /\ word_to_document_id_to_term_frequency_ = before.inverted
    /\ document_id_to_document_data_ = before.data
    /\ document_ids_ = before.ids

\* C1: for every live document id d and every term t, t is a key of
\* word_frequencies(d) if and only if d is a key of inverted[t].
C1_WordFrequenciesMatchInverted ==
    \A d \in document_ids_ : \A t \in Terms :
        (t \in DOMAIN GetWordFrequencies(d)) <=> (d \in DocumentsWith(t))

\* C1 witness: a parallel removal of a live document has returned and a
\* document that shares a term with the removed one is still live.
C1_Witness ==
    /\ RemovedLive
    /\ last.args[2] = "parallel"
    /\ \E e \in document_ids_ :
           (DOMAIN GetWordFrequencies(e))
           \cap (DOMAIN before.data[last.args[1]].word_frequencies) # {}

\* C2: no term key of the inverted index maps to an empty inner map, and a
\* removal drops every term whose only document was the removed one.
C2_NoEmptyInnerMap ==
    /\ \A t \in DOMAIN word_to_document_id_to_term_frequency_ :
           word_to_document_id_to_term_frequency_[t] # EmptyMap
    /\ RemovedLive =>
           \A t \in DOMAIN before.inverted :
               DOMAIN before.inverted[t] = {last.args[1]}
                   => t \notin DOMAIN word_to_document_id_to_term_frequency_

\* C2 witness: a removal has dropped a term of the removed document and has
\* kept another term of it, which a live document still contains.
C2_Witness ==
    /\ RemovedLive
    /\ \E t \in DOMAIN before.inverted :
           /\ DOMAIN before.inverted[t] = {last.args[1]}
           /\ t \notin DOMAIN word_to_document_id_to_term_frequency_
    /\ \E t \in DOMAIN before.inverted :
           /\ last.args[1] \in DOMAIN before.inverted[t]
           /\ t \in DOMAIN word_to_document_id_to_term_frequency_

\* C3 as claimed: the union of the inner key sets of the inverted index
\* equals the live-id set.
C3_IndexedIdsAreLiveIds == IndexedIds = document_ids_

\* C3 amended: the union of the inner key sets equals the set of the live
\* ids whose document has a word that is not a stop word; an accepted
\* document without such a word is live and in no inner map.
C3_IndexedIdsAreLiveIdsWithWords ==
    /\ IndexedIds = {d \in document_ids_ : GetWordFrequencies(d) # EmptyMap}
    /\ Done("AddDocument") =>
           /\ last.args[1] \in document_ids_
           /\ last.args[1] \in IndexedIds
                  <=> SplitIntoWordsNoStop(last.args[2]) # << >>

\* C3 witness: a document of stop words only has been accepted beside a
\* live document that has words.
C3_Witness ==
    /\ Done("AddDocument")
    /\ last.args[2] # << >>
    /\ SplitIntoWordsNoStop(last.args[2]) = << >>
    /\ last.args[1] \notin IndexedIds
    /\ IndexedIds # {}

\* C4: the live-id set and the key set of the forward map are equal, and
\* document_count() is the size of that set.
C4_LiveIdsAreForwardKeys ==
    /\ document_ids_ = DOMAIN document_id_to_document_data_
    /\ GetDocumentCount = Cardinality(document_ids_)

\* C4 witness: a removal of a live document has left another one live.
C4_Witness ==
    /\ RemovedLive
    /\ GetDocumentCount = 1
    /\ Cardinality(before.ids) = 2

\* Some character of text is a control character.
HasControlCharacter(text) == \E i \in 1..Len(text) : IsControl(text[i])

\* C5: an insert with a negative id fails with the invalid-id error, one
\* with a live id with the duplicate-id error, one with a control character
\* in its text with the invalid-content error (when its id is acceptable),
\* and an insert that fails leaves the inverted index, the forward map, the
\* live-id set and the stop words as they were.
C5_FailedInsertChangesNothing ==
    last.op = "AddDocument" =>
        /\ last.args[1] < 0 => last.error = "negative ids are not allowed"
        /\ last.args[1] \in before.ids => last.error = "repeating ids are not allowed"
        /\ HasControlCharacter(last.args[2]) =>
               /\ last.error # NoError
               /\ last.args[1] >= 0 /\ last.args[1] \notin before.ids
                      => last.error = "word in document contains unaccaptable symbol"
        /\ last.error # NoError => IndexUnchanged

\* C5 witness: an insert of a text with a control character has failed on
\* an index that holds a document with words.
C5_Witness ==
    /\ last.op = "AddDocument"
    /\ last.error = "word in document contains unaccaptable symbol"
    /\ IndexedIds # {}

\* C6: a removal in either mode returns; when the id is live it decreases
\* document_count by one and leaves the forward-map entry and every posting
\* of every other document as they were (and adds none); when the id is not
\* live it changes nothing.
C6_RemoveFrame ==
    last.op = "RemoveDocument" =>
        /\ last.error = NoError
        /\ stop_words_ = before.stop_words
        /\ IF last.args[1] \in before.ids
           THEN /\ GetDocumentCount = Cardinality(DOMAIN before.data) - 1
                /\ Cardinality(document_ids_) = Cardinality(before.ids) - 1
                /\ \A e \in before.ids \ {last.args[1]} :
                       /\ e \in DOMAIN document_id_to_document_data_
                       /\ document_id_to_document_data_[e] = before.data[e]
                       /\ \A t \in DOMAIN before.inverted :
                              e \in DOMAIN before.inverted[t] =>
                                  /\ e \in DocumentsWith(t)
                                  /\ word_to_document_id_to_term_frequency_[t][e]
                                         = before.inverted[t][e]
                /\ \A t \in DOMAIN word_to_document_id_to_term_frequency_ :
                       DocumentsWith(t) \subseteq DocumentsWithBefore(t) \ {last.args[1]}
           ELSE IndexUnchanged

\* C6 witness: a parallel removal of a live document has returned, and
\* another document that shares a term with it is live.
C6_Witness ==
    /\ RemovedLive
    /\ last.args[2] = "parallel"
    /\ \E e \in document_ids_ : \E t \in DOMAIN before.inverted :
           {e, last.args[1]} \subseteq DOMAIN before.inverted[t] /\ e # last.args[1]

\* The ids of the documents of a result.
ResultIds(result) == {result[i].id : i \in 1..Len(result)}

\* C7: from a removal of d until d is inserted again, no find_top result
\* contains d, word_frequencies(d) is the empty map and the iteration over
\* the live ids does not yield d.
C7_RemovedIsGone ==
    \A d \in removed \cup (IF Done("RemoveDocument") THEN {last.args[1]} ELSE {}) :
        /\ GetWordFrequencies(d) = EmptyMap
        /\ d \notin Range(LiveIds)
        /\ Done("FindTopDocuments") => d \notin ResultIds(last.result)

\* C7 witness: find_top has returned documents while an id removed before
\* the call is still not inserted again.
C7_Witness ==
    /\ Done("FindTopDocuments")
    /\ last.result # << >>
    /\ before.removed # {}
    /\ removed = before.removed

\* C8: an insert of a valid text under an id that was removed and not
\* inserted since returns, and the index then holds for the id the words,
\* the status and the rating of this insert, and no other posting.
C8_ReinsertAfterRemove ==
    (/\ last.op = "AddDocument"
     /\ last.args[1] \in before.removed
     /\ ~HasControlCharacter(last.args[2])) =>
        /\ last.error = NoError
        /\ last.args[1] \in document_ids_
        /\ last.args[1] \in DOMAIN document_id_to_document_data_
        /\ document_id_to_document_data_[last.args[1]].status = last.args[3]
        /\ document_id_to_document_data_[last.args[1]].rating
               = ComputeAverageRating(last.args[4])
        /\ DOMAIN GetWordFrequencies(last.args[1])
               = Range(SplitIntoWordsNoStop(last.args[2]))
        /\ WordsOf(last.args[1]) = Range(SplitIntoWordsNoStop(last.args[2]))

\* C8 witness: an id removed with one text has been inserted again with a
\* text that has words.
C8_Witness ==
    /\ Done("AddDocument")
    /\ last.args[1] \in before.removed
    /\ WordsOf(last.args[1]) # {}

\* Successive results are in the order the claim gives.
InClaimedOrder(result) ==
    \A i \in 1..(Len(result) - 1) :
        \/ result[i].relevance > result[i + 1].relevance
        \/ /\ Abs(result[i].relevance - result[i + 1].relevance) < kAccuracy
           /\ result[i].rating >= result[i + 1].rating

\* C9 as claimed: find_top returns at most 5 results, successive results
\* are in descending relevance or, within 1e-6 of each other, in descending
\* rating, and the comparator of the sort is a strict weak ordering of the
\* documents it sorts.
C9_SortedByStrictWeakOrdering ==
    Done("FindTopDocuments") =>
        /\ Len(last.result) <= kMaxResultDocumentCount
        /\ InClaimedOrder(last.result)
        /\ IsStrictWeakOrdering(
               Range(FilteredDocuments(ParseQuery(last.args[1]), last.args[2])))

\* C10: no document of a find_top result is indexed under a minus word of
\* the query.
C10_NoMinusWordInResult ==
    Done("FindTopDocuments") =>
        \A w \in ParseQuery(last.args[1]).minus_words :
            ResultIds(last.result) \cap DocumentsWith(w) = {}

\* C10 witness: find_top has returned a document for a query with a minus
\* word under which another document is indexed.
C10_Witness ==
    /\ Done("FindTopDocuments")
    /\ last.result # << >>
    /\ \E w \in ParseQuery(last.args[1]).minus_words : DocumentsWith(w) # {}

\* The left-fold concatenation of the lists of lists, in order.
RECURSIVE LeftFold(_)
LeftFold(lists) ==
    IF lists = << >> THEN << >>
    ELSE LeftFold(SubSeq(lists, 1, Len(lists) - 1)) \o lists[Len(lists)]

\* Every query of the batch parses.
ValidBatch(queries) ==
    \A i \in 1..Len(queries) : ParseQuery(queries[i]).ok

\* C11 as claimed: for a batch of valid queries, what ProcessQueriesJoined
\* returns is the left-fold concatenation, in query order, of the lists of
\* ProcessQueries, whatever grouping and order the reduction applies.
C11_JoinedIsLeftFold ==
    Done("ProcessQueriesJoined") /\ ValidBatch(last.args[1]) =>
        last.result = LeftFold(running.output)

\* C12: for a batch of valid queries, ProcessQueries returns as many lists
\* as the batch has queries, list i is a result of find_top(queries[i]) with
\* the default predicate, and each output slot is written once, by the
\* task of its query; while the batch is in flight no slot is written twice
\* and the slots written are those of the tasks that have run.
C12_SlotPerQuery ==
    /\ running.op = "ProcessQueries" =>
           \A i \in 1..Len(running.queries) :
               running.writes[i] = (IF i \in running.pending THEN 0 ELSE 1)
    /\ Done("ProcessQueries") /\ ValidBatch(last.args[1]) =>
           /\ Len(last.result) = Len(last.args[1])
           /\ \A i \in 1..Len(last.args[1]) :
                  /\ last.result[i] \in FindTopDocumentsResults(last.args[1][i], "ACTUAL")
                  /\ running.writes[i] = 1

\* C12 witness: a batch of two queries with different, non-empty results
\* has returned.
C12_Witness ==
    /\ Done("ProcessQueries")
    /\ Len(last.args[1]) = 2
    /\ last.result[1] # << >>
    /\ last.result[2] # << >>
    /\ last.result[1] # last.result[2]

\* The inverted index that the removal of document_id with the erasures in
\* the order of the vector leaves, from the state a call began in.
RemovedSequentially(document_id) ==
    LET words == SortedWords(DOMAIN before.data[document_id].word_frequencies)
        id_to_frequency == [n \in 1..Len(words) |-> before.inverted[words[n]]]
    IN  PutBack(before.inverted, words,
                ErasedFrom(id_to_frequency, document_id, "sequential"), Len(words))

\* C13: a removal of a live id d, in parallel mode with its erasures in any
\* order as well as in sequential mode, ends in the index state that the
\* sequential removal of d reaches from the state the call began in.
C13_ParallelRemoveIsSequentialRemove ==
    (/\ Done("RemoveDocument")
     /\ last.args[1] \in before.ids) =>
        /\ word_to_document_id_to_term_frequency_ = RemovedSequentially(last.args[1])
        /\ document_id_to_document_data_ = MapErase(before.data, last.args[1])
        /\ document_ids_ = before.ids \ {last.args[1]}
        /\ stop_words_ = before.stop_words

\* C13 witness: a parallel removal whose erasures ran in another order than
\* that of the vector has returned, and a term of the removed document is
\* still indexed.
C13_Witness ==
    /\ Done("RemoveDocument")
    /\ running.op = "RemoveDocument"
    /\ running.policy = "parallel"
    /\ \E i, j \in 1..Len(running.done) : i < j /\ running.done[i] > running.done[j]
    /\ \E n \in 1..Len(running.words) :
           running.words[n] \in DOMAIN word_to_document_id_to_term_frequency_

\* C14: for a live id d and a valid query, match returns, with the status
\* of d and with the query's plus words under which d is indexed, each
\* once; when d is indexed under a minus word of the query, the list of
\* words is empty.
C14_MatchedWords ==
    (/\ last.op = "MatchDocument"
     /\ last.args[2] \in before.ids
     /\ ParseQuery(last.args[1]).ok) =>
        LET query == ParseQuery(last.args[1])
            d == last.args[2]
        IN  /\ last.error = NoError
            /\ last.result.status = document_id_to_document_data_[d].status
            /\ IF \E w \in query.minus_words : d \in DocumentsWith(w)
               THEN last.result.words = << >>
               ELSE /\ Range(last.result.words)
                          = {w \in query.plus_words : d \in DocumentsWith(w)}
                    /\ Cardinality(Range(last.result.words)) = Len(last.result.words)

\* C14 witness: match has returned an empty list for a document that is
\* indexed under a plus word and under a minus word of the query.
C14_Witness ==
    /\ Done("MatchDocument")
    /\ last.result.words = << >>
    /\ \E w \in ParseQuery(last.args[1]).plus_words : last.args[2] \in DocumentsWith(w)
    /\ \E w \in ParseQuery(last.args[1]).minus_words : last.args[2] \in DocumentsWith(w)

\* The token is a lone "-", begins with "--" or has a control character.
InvalidToken(token) ==
    \/ token = << "-" >>
    \/ Len(token) >= 2 /\ token[1] = "-" /\ token[2] = "-"
    \/ HasControlCharacter(token)

\* C15: find_top and match fail with the invalid-query error exactly when
\* some token of the query is a lone "-", begins with "--" or has a control
\* character; otherwise the parse succeeds, plus_words holds the tokens
\* without a leading "-" that are no stop words, minus_words holds the
\* tokens with a leading "-", stripped of it, whose stripped form is no stop
\* word, and no stop word is in either set.
C15_ParseFailsOnInvalidToken ==
    last.op \in {"FindTopDocuments", "MatchDocument"} =>
        LET tokens == Range(SplitIntoWords(last.args[1]))
            query == ParseQuery(last.args[1])
        IN  /\ last.error = "invalid request" <=> \E token \in tokens : InvalidToken(token)
            /\ query.ok <=> ~\E token \in tokens : InvalidToken(token)
            /\ query.ok =>
                   /\ query.plus_words =
                          {token \in tokens : token[1] # "-" /\ token \notin stop_words_}
                   /\ query.minus_words =
                          {Tail(token) : token \in
                              {u \in tokens : u[1] = "-" /\ Tail(u) \notin stop_words_}}
                   /\ query.plus_words \cap stop_words_ = {}
                   /\ query.minus_words \cap stop_words_ = {}

\* C15 witness: match has returned for a query with a minus word and a stop
\* word, which the parse has dropped.
C15_Witness ==
    /\ Done("MatchDocument")
    /\ ParseQuery(last.args[1]).minus_words # {}
    /\ \E token \in Range(SplitIntoWords(last.args[1])) : token \in stop_words_

\* The maximal runs of text without a separator, in order.
MaximalRuns(text, IsSeparator(_)) ==
    LET starts == {i \in 1..Len(text) :
                      /\ ~IsSeparator(text[i])
                      /\ i = 1 \/ IsSeparator(text[i - 1])}
        end(i) == CHOOSE j \in i..Len(text) :
                      /\ \A k \in i..j : ~IsSeparator(text[k])
                      /\ j = Len(text) \/ IsSeparator(text[j + 1])
        ordered == SortedIds(starts)
    IN  [k \in 1..Len(ordered) |-> SubSeq(text, ordered[k], end(ordered[k]))]

\* The separator of the view form: the space.
IsTheSpace(c) == c = SP

\* C19 as claimed: both tokenizer forms return the maximal runs of
\* non-whitespace characters of the text, in order (the whitespace of the
\* view form is the space), and no empty token.
C19_TokenizersGiveMaximalRuns ==
    /\ Done("SplitIntoWords") =>
           /\ last.result = MaximalRuns(last.args[1], IsSpace)
           /\ \A i \in 1..Len(last.result) : last.result[i] # << >>
    /\ Done("SplitIntoWordsView") =>
           /\ last.result = MaximalRuns(last.args[1], IsTheSpace)
           /\ \A i \in 1..Len(last.result) : last.result[i] # << >>

\* The operations that only read the index.
ReadOperations ==
    {"FindTopDocuments", "MatchDocument", "GetWordFrequencies",
     "GetDocumentCount", "begin"}

\* C16: find_top, match, word_frequencies, document_count and the iteration
\* over the live ids leave the inverted index, the forward map, the live-id
\* set and the stop words as they were, when they return and when they fail
\* with the invalid-query error.
C16_ReadsChangeNothing ==
    last.op \in ReadOperations => IndexUnchanged

\* C16 witness: find_top has returned for a query with a word that is not
\* indexed, on an index that holds documents.
C16_Witness ==
    /\ Done("FindTopDocuments")
    /\ IndexedIds # {}
    /\ \E w \in ParseQuery(last.args[1]).plus_words :
           w \notin DOMAIN word_to_document_id_to_term_frequency_

\* C17 as claimed: after any sequence of constructions with stop words,
\* SetStopWords, inserts and removals, no key of the inverted index or of a
\* document's word_frequencies is a stop word or has a control character.
C17_NoStoredTermIsStopWord ==
    \A t \in Terms : t \notin stop_words_ /\ ~HasControlCharacter(t)

\* C18 as claimed: every stop word the index holds and every term an
\* insert has stored is a non-empty token that does not begin with "-".
C18_StopWordsAndTermsAreValidated ==
    \A w \in stop_words_ \cup Terms : w # << >> /\ w[1] # "-"

\* The live documents that are indexed under a plus word of the query and
\* under none of its minus words and that satisfy the predicate.
Candidates(query, predicate) ==
    {d \in document_ids_ :
        /\ \E w \in query.plus_words : d \in DocumentsWith(w)
        /\ \A w \in query.minus_words : d \notin DocumentsWith(w)
        /\ Predicate(predicate, d, document_id_to_document_data_[d].status,
                     document_id_to_document_data_[d].rating)}

\* C20: for a valid query q and a predicate p, find_top returns, and its
\* result holds min(5, |C|) documents, all of them of C and no two with the
\* same id, where C is the set of live documents with a plus word of q,
\* without a minus word of q and satisfying p, whatever their relevance;
\* the result is the empty sequence when C is empty.
C20_ResultIsTopOfCandidates ==
    (last.op = "FindTopDocuments" /\ ParseQuery(last.args[1]).ok) =>
        LET C == Candidates(ParseQuery(last.args[1]), last.args[2])
        IN  /\ last.error = NoError
            /\ Len(last.result) =
                   (IF Cardinality(C) < 5 THEN Cardinality(C) ELSE 5)
            /\ ResultIds(last.result) \subseteq C
            /\ Cardinality(ResultIds(last.result)) = Len(last.result)
            /\ C = {} => last.result = << >>

\* C20 witness: find_top has returned five of six candidates, whose
\* relevance is 0.
C20_Witness ==
    /\ Done("FindTopDocuments")
    /\ Cardinality(Candidates(ParseQuery(last.args[1]), last.args[2])) > 5
    /\ Len(last.result) = 5
    /\ \A i \in 1..Len(last.result) : last.result[i].relevance = 0

\* The double of the term frequency is at most 1.0.
AtMostOne(frequency) ==
    \/ frequency.num < frequency.den
    \/ /\ frequency.num = frequency.den
       /\ FrequencyError(frequency.num, frequency.den) <= 0

\* The double of the term frequency is the double num / den.
IsQuotient(frequency) ==
    FrequencyError(frequency.num, frequency.den)
        = RoundToDouble(frequency.num, frequency.den, 0)

\* The err of the double that adding the term frequencies of the first n
\* words up, in the order of the map, gives.
RECURSIVE SumError(_, _, _)
SumError(word_frequencies, words, n) ==
    LET frequency == word_frequencies[words[n]]
        error == FrequencyError(frequency.num, frequency.den)
    IN  IF n = 1 THEN error
        ELSE RoundToDouble(
                 SumSeq([i \in 1..n |-> word_frequencies[words[i]].num]),
                 frequency.den,
                 SumError(word_frequencies, words, n - 1) + error)

\* The doubles of the term frequencies of a document add up to the double
\* 1.0.
AddUpToOne(word_frequencies) ==
    LET words == SortedWords(DOMAIN word_frequencies)
    IN  /\ SumSeq([i \in 1..Len(words) |-> word_frequencies[words[i]].num])
               = word_frequencies[words[1]].den
        /\ SumError(word_frequencies, words, Len(words)) = 0

\* C21 as claimed: for every live document d and every term t stored for
\* d, the forward map and the inverted index hold the same term frequency,
\* which is the number of occurrences of t in d divided by the number of
\* non-stop tokens of d, strictly positive and at most 1; the term
\* frequencies of a document with a non-stop token add up to 1.
C21_TermFrequencyIsQuotient ==
    /\ \A d \in document_ids_ :
           LET word_frequencies == GetWordFrequencies(d)
           IN  /\ \A t \in DOMAIN word_frequencies :
                      /\ d \in DocumentsWith(t)
                      /\ word_to_document_id_to_term_frequency_[t][d] = word_frequencies[t]
                      /\ word_frequencies[t].num >= 1
                      /\ IsQuotient(word_frequencies[t])
                      /\ AtMostOne(word_frequencies[t])
               /\ word_frequencies # EmptyMap => AddUpToOne(word_frequencies)
    /\ Done("AddDocument") =>
           LET words == SplitIntoWordsNoStop(last.args[2])
           IN  \A t \in Range(words) :
                   /\ GetWordFrequencies(last.args[1])[t].num = Occurrences(words, t)
                   /\ GetWordFrequencies(last.args[1])[t].den = Len(words)

\* The for_each of a removal is in progress.
ErasuresRun ==
    running.op = "RemoveDocument" /\ last.op = "none"

\* C22: while the erasures of a parallel removal run, no two tasks that are
\* active at the same time work on the same inner map, and the top-level
\* inverted index keeps its keys (its inner maps have been moved out and
\* are put back after the erasures), and the forward map and the live-id
\* set are as they were when the call began.
C22_TasksWorkOnDisjointMaps ==
    (ErasuresRun /\ running.policy = "parallel") =>
        /\ \A p, q \in running.active : p # q => p[2] # q[2]
        /\ DOMAIN word_to_document_id_to_term_frequency_ = DOMAIN before.inverted
        /\ \A word \in DOMAIN before.inverted :
               word_to_document_id_to_term_frequency_[word] =
                   (IF word \in Range(running.words) THEN EmptyMap
                    ELSE before.inverted[word])
        /\ document_id_to_document_data_ = before.data
        /\ document_ids_ = before.ids

\* C22 witness: two tasks of a parallel removal are active at the same time
\* and a third one has ended.
C22_Witness ==
    /\ ErasuresRun
    /\ running.policy = "parallel"
    /\ Cardinality(running.active) = 2
    /\ Len(running.done) = 1

\* C23: ProcessQueries and ProcessQueriesJoined return only for a batch
\* whose queries all parse, and then with every slot written; when a task
\* meets an invalid query, whichever task it is and whatever slots have
\* been written, nothing is returned to the caller.
C23_NoPartialResult ==
    /\ last.op \in {"ProcessQueries", "ProcessQueriesJoined"} =>
           /\ last.error = NoError
           /\ ValidBatch(last.args[1])
           /\ \A i \in 1..Len(last.args[1]) : running.writes[i] = 1
    /\ Done("ProcessQueries") => Len(last.result) = Len(last.args[1])
    /\ running.op = "std::terminate" => last.op = "none"
    /\ (running.op = "ProcessQueries" /\ running.pending = {}) =>
           ValidBatch(running.queries)

\* C23 witness: the task of an invalid query has ended the batch after the
\* task of another query had written its slot.
C23_Witness ==
    /\ running.op = "std::terminate"
    /\ \E i \in 1..Len(running.queries) :
           running.writes[i] = 1 /\ running.output[i] # << >>

====
